---- MODULE Spec2Model ----
(***************************************************************************)
(* A model of the document summarisation pipeline of RAG-Summary:          *)
(*   document_processor.py  DocumentProcessor  (extraction, normalisation) *)
(*   cohere_compass.py      CohereCompassRAG   (chunking, prompts, model   *)
(*                                              calls, response parsing)   *)
(*   web_app.py             StreamlitApp       (the request handler)       *)
(* Text is a sequence of one-character strings.  Sizes that the program    *)
(* counts in the tens of thousands of characters are instance fields here, *)
(* drawn from small ranges, so that truncation happens on short texts.     *)
(***************************************************************************)
EXTENDS Integers, Sequences, FiniteSets, TLC

VARIABLES
    call,        \* the operation under test and its arguments (single-operation specifications)
    ret,         \* what that operation returned or raised; NotCalled before the call
    chat_calls,  \* the calls made to client.chat, in order, each with its outcome
    imports,     \* the libraries the imports of document_processor.py found
    pc,          \* where the request handler of the web application stands
    form,        \* the submitted form: the uploaded file and the two checkboxes
    disk,        \* the temporary files on disk, by path
    doc_content, \* document_content, the local of the handler: None or the extracted content
    summary_data,           \* the local of the handler: None or the summary record
    white_paper_summary,    \* st.session_state.white_paper_summary
    white_paper_file_path,  \* st.session_state.white_paper_file_path
    trace,       \* the states the current request has visited, in order
    requests,    \* the requests submitted so far in the session
    answers,     \* the local of answer_questions: the mapping built so far, as (question, answer) pairs
    asked        \* the position of the loop of answer_questions: the questions it has been through

\* the state of the web application; an Optional is the empty set or a singleton
app_vars ==
    <<imports, pc, form, disk, doc_content, summary_data, white_paper_summary,
      white_paper_file_path, trace, requests>>

\* the state of a running answer_questions
loop_vars == <<answers, asked>>

vars == <<call, ret, chat_calls, app_vars, loop_vars>>

\* the web application before any form is submitted
AppAtRest ==
    /\ pc = "Idle"
    /\ form = {}
    /\ disk = {}
    /\ doc_content = {}
    /\ summary_data = {}
    /\ white_paper_summary = {}
    /\ white_paper_file_path = {}
    /\ trace = <<"Idle">>
    /\ requests = 0

\* answer_questions is not running
LoopAtRest ==
    /\ answers = {}
    /\ asked = 0

(***************************************************************************)
(* Bounds of the model.                                                    *)
(***************************************************************************)
MaxRawLen == 5        \* longest raw text handed to the normalizer
MaxContentCap == 2    \* largest max_content_length an instance is given
MaxChunkText == 7     \* longest text handed to the chunker
MaxSummaryLen == 6    \* longest enumerated summary text
MaxFileLen == 3       \* longest enumerated file of a text format
MaxPages == 3         \* most pages of a portable document
PipelineContentCap == 20   \* the max_content_length of the instance that reads files
MaxRequests == 2      \* the requests one session submits
MaxDocLen == 4        \* longest document content handed to a prompt builder
MaxChunkCap == 5      \* largest chunk size (argument or max_chunk_size field)

\* the libraries the imports found: pypdf, python-docx, pandas
Env(pypdf, docx, pandas) == [pypdf |-> pypdf, docx |-> docx, pandas |-> pandas]

AllLibraries == Env(TRUE, TRUE, TRUE)

\* the outcome of a call: not made yet, a returned value, or a raised exception
NotCalled == [state |-> "not called"]

Returned(v) == [state |-> "returned", value |-> v]

Raised(e) == [state |-> "raised", exc |-> e]

(***************************************************************************)
(* Characters.  re's \s and str.strip() agree on what whitespace is; \w is *)
(* letters, digits and the underscore.                                     *)
(***************************************************************************)
Whitespace == {" ", "\n", "\t"}
WordChars ==
    {"a", "b", "c", "d", "e", "f", "g", "h", "i", "j", "k", "l", "m",
     "n", "o", "p", "q", "r", "s", "t", "u", "v", "w", "x", "y", "z",
     "A", "B", "C", "D", "E", "F", "G", "H", "I", "J", "K", "L", "M",
     "N", "O", "P", "Q", "R", "S", "T", "U", "V", "W", "X", "Y", "Z",
     "0", "1", "2", "3", "4", "5", "6", "7", "8", "9", "_"}
SafePunctuation == {".", ",", ";", ":", "!", "?", "-", "(", ")", "[", "]"}

IsSpace(c) == c \in Whitespace

\* the complement of the class [^\w\s\.\,\;\:\!\?\-\(\)\[\]] of _clean_content
IsSafeChar(c) == c \in WordChars \cup Whitespace \cup SafePunctuation

(***************************************************************************)
(* String helpers, as Python computes them.                                *)
(***************************************************************************)
Take(s, n) == SubSeq(s, 1, IF n < Len(s) THEN n ELSE Len(s))

Drop(s, n) == SubSeq(s, n + 1, Len(s))

RECURSIVE LStrip(_)
LStrip(s) ==
    IF s # <<>> /\ IsSpace(Head(s)) THEN LStrip(Tail(s)) ELSE s

RECURSIVE RStrip(_)
RStrip(s) ==
    IF s # <<>> /\ IsSpace(s[Len(s)]) THEN RStrip(SubSeq(s, 1, Len(s) - 1)) ELSE s

\* str.strip()
Strip(s) == RStrip(LStrip(s))

\* re.sub(r'\s+', ' ', content): every maximal whitespace run becomes one space
RECURSIVE CollapseWhitespace(_)
CollapseWhitespace(s) ==
    IF s = <<>> THEN <<>>
    ELSE IF IsSpace(Head(s))
         THEN <<" ">> \o CollapseWhitespace(LStrip(s))
         ELSE <<Head(s)>> \o CollapseWhitespace(Tail(s))

\* re.sub(r'[^\w\s\.\,\;\:\!\?\-\(\)\[\]]', '', content)
StripSpecial(s) == SelectSeq(s, IsSafeChar)

\* the literal appended on truncation
TruncationSuffix ==
    <<".", ".", ".", " ", "[", "C", "o", "n", "t", "e", "n", "t", " ",
      "t", "r", "u", "n", "c", "a", "t", "e", "d", "]">>

(***************************************************************************)
(* DocumentProcessor._clean_content; max_content_length is the field of    *)
(* the instance.                                                           *)
(***************************************************************************)
\* a variant that truncates and appends nothing
clean_content_silent(max_content_length, content) ==
    IF content = <<>> THEN <<>>
    ELSE LET collapsed == CollapseWhitespace(content)
             stripped == StripSpecial(collapsed)
             limited == IF Len(stripped) > max_content_length
                        THEN Take(stripped, max_content_length)
                        ELSE stripped
         IN  Strip(limited)

\* a variant without the substitution that collapses whitespace
clean_content_uncollapsed(max_content_length, content) ==
    IF content = <<>> THEN <<>>
    ELSE LET stripped == StripSpecial(content)
             limited == IF Len(stripped) > max_content_length
                        THEN Take(stripped, max_content_length) \o TruncationSuffix
                        ELSE stripped
         IN  Strip(limited)

\* a variant without the substitution that removes special characters
clean_content_unstripped(max_content_length, content) ==
    IF content = <<>> THEN <<>>
    ELSE LET collapsed == CollapseWhitespace(content)
             limited == IF Len(collapsed) > max_content_length
                        THEN Take(collapsed, max_content_length) \o TruncationSuffix
                        ELSE collapsed
         IN  Strip(limited)

_clean_content(max_content_length, content) ==
    IF content = <<>> THEN <<>>
    ELSE LET collapsed == CollapseWhitespace(content)
             stripped == StripSpecial(collapsed)
             limited == IF Len(stripped) > max_content_length
                        THEN Take(stripped, max_content_length) \o TruncationSuffix
                        ELSE stripped
         IN  Strip(limited)

(***************************************************************************)
(* Bounded inputs.                                                         *)
(***************************************************************************)
RECURSIVE SeqsUpTo(_, _)
SeqsUpTo(S, n) ==
    IF n = 0 THEN {<<>>}
    ELSE LET shorter == SeqsUpTo(S, n - 1)
         IN  shorter \cup {Append(s, c) : s \in {t \in shorter : Len(t) = n - 1}, c \in S}

RawAlphabet == {"a", " ", "\n", "@"}
RawTexts == SeqsUpTo(RawAlphabet, MaxRawLen)

\* documents whose own text holds the words of the truncation suffix
SuffixTexts == {TruncationSuffix, <<"a", " ">> \o TruncationSuffix}

\* a max_content_length that those documents stay within
SuffixCap == Len(TruncationSuffix) + 2

(***************************************************************************)
(* SpecClean: the normalizer applied to every bounded raw text.            *)
(***************************************************************************)
InitClean ==
    /\ call \in {[op |-> "_clean_content", env |-> AllLibraries, max_content_length |-> m,
                  content |-> t] :
                    m \in (1..MaxContentCap) \cup {MaxRawLen}, t \in RawTexts}
                \cup {[op |-> "_clean_content", env |-> AllLibraries,
                       max_content_length |-> m, content |-> t] :
                         m \in {1, SuffixCap}, t \in SuffixTexts}
    /\ ret = NotCalled
    /\ chat_calls = <<>>
    /\ imports = call.env
    /\ AppAtRest
    /\ LoopAtRest

CallCleanContent ==
    /\ call.op = "_clean_content"
    /\ ret.state = "not called"
    /\ ret' = Returned(_clean_content(call.max_content_length, call.content))
    /\ UNCHANGED <<call, chat_calls, app_vars, loop_vars>>

NextClean == CallCleanContent

SpecClean == InitClean /\ [][NextClean]_vars

(***************************************************************************)
(* C1, C2: the normalizer's truncation.                                    *)
(***************************************************************************)
\* the cleaned form: whitespace collapsed, then characters stripped
Cleaned(content) == StripSpecial(CollapseWhitespace(content))

\* the marker as the specification spells it
TruncationMarker ==
    <<"[", "C", "o", "n", "t", "e", "n", "t", " ",
      "t", "r", "u", "n", "c", "a", "t", "e", "d", "]">>

LeadingSpaces(s) == Len(s) - Len(LStrip(s))

CleanReturned == call.op = "_clean_content" /\ ret.state = "returned"

CleanTruncates == Len(Cleaned(call.content)) > call.max_content_length

\* C1 as stated: a cleaned text longer than max_content_length comes back as its
\* first max_content_length characters followed by "[Content truncated]", so
\* its length is max_content_length plus the length of that marker.
C1_TruncatedToMaxPlusMarker ==
    (CleanReturned /\ CleanTruncates) =>
        /\ ret.value = Take(Cleaned(call.content), call.max_content_length)
                          \o TruncationMarker
        /\ Len(ret.value) = call.max_content_length + Len(TruncationMarker)

\* C1 amended: a cleaned text longer than max_content_length comes back as its
\* first max_content_length characters, less their leading whitespace,
\* followed by the 23 characters "... [Content truncated]"; the length is
\* max_content_length + 23 minus the number of leading whitespace characters.
C1_TruncatedToMaxPlusSuffix ==
    (CleanReturned /\ CleanTruncates) =>
        LET out == ret.value
            n == Len(out)
            kept == Take(Cleaned(call.content), call.max_content_length)
        IN  /\ n >= 23
            /\ SubSeq(out, n - 22, n) = TruncationSuffix
            /\ SubSeq(out, 1, n - 23) = LStrip(kept)
            /\ n = call.max_content_length + 23 - LeadingSpaces(kept)

\* a truncation whose kept prefix starts with whitespace has been returned
C1_Witness ==
    /\ CleanReturned
    /\ CleanTruncates
    /\ Head(Cleaned(call.content)) = " "
    /\ Len(ret.value) > 23

\* C2: every string the normalizer returns is at most max_content_length long.
C2_LengthWithinMax ==
    CleanReturned => Len(ret.value) <= call.max_content_length

(***************************************************************************)
(* CohereCompassRAG._chunk_document.  An Optional argument is the empty    *)
(* set (None) or a singleton.                                              *)
(***************************************************************************)
ParagraphBreak == <<"\n", "\n">>

\* the index of the first "\n\n" of s, 0 if there is none
FirstBreak(s) ==
    LET at == {i \in 1..(Len(s) - 1) : s[i] = "\n" /\ s[i + 1] = "\n"}
    IN  IF at = {} THEN 0 ELSE CHOOSE i \in at : \A j \in at : i <= j

\* content.split('\n\n')
RECURSIVE SplitParagraphs(_)
SplitParagraphs(s) ==
    LET i == FirstBreak(s)
    IN  IF i = 0 THEN <<s>>
        ELSE <<SubSeq(s, 1, i - 1)>> \o SplitParagraphs(Drop(s, i + 1))

\* the chunks list once current_chunk has been saved, if it holds anything
SaveChunk(chunks, current_chunk) ==
    IF current_chunk # <<>> THEN Append(chunks, Strip(current_chunk)) ELSE chunks

\* a variant whose size test forgets what the current chunk already holds
RECURSIVE ChunkLoopParaOnly(_, _, _, _)
ChunkLoopParaOnly(paragraphs, chunk_size, chunks, current_chunk) ==
    IF paragraphs = <<>> THEN SaveChunk(chunks, current_chunk)
    ELSE LET para == Head(paragraphs)
         IN  IF Len(para) < chunk_size
             THEN ChunkLoopParaOnly(Tail(paragraphs), chunk_size, chunks,
                                    current_chunk \o para \o ParagraphBreak)
             ELSE ChunkLoopParaOnly(Tail(paragraphs), chunk_size,
                                    SaveChunk(chunks, current_chunk),
                                    para \o ParagraphBreak)

\* a variant that starts the new chunk empty instead of with the paragraph
RECURSIVE ChunkLoopDropsPara(_, _, _, _)
ChunkLoopDropsPara(paragraphs, chunk_size, chunks, current_chunk) ==
    IF paragraphs = <<>> THEN SaveChunk(chunks, current_chunk)
    ELSE LET para == Head(paragraphs)
         IN  IF Len(current_chunk) + Len(para) < chunk_size
             THEN ChunkLoopDropsPara(Tail(paragraphs), chunk_size, chunks,
                                     current_chunk \o para \o ParagraphBreak)
             ELSE ChunkLoopDropsPara(Tail(paragraphs), chunk_size,
                                     SaveChunk(chunks, current_chunk), <<>>)

\* the for loop over paragraphs and the final "add remaining content"
RECURSIVE ChunkLoop(_, _, _, _)
ChunkLoop(paragraphs, chunk_size, chunks, current_chunk) ==
    IF paragraphs = <<>> THEN SaveChunk(chunks, current_chunk)
    ELSE LET para == Head(paragraphs)
         IN  IF Len(current_chunk) + Len(para) < chunk_size
             THEN ChunkLoop(Tail(paragraphs), chunk_size, chunks,
                            current_chunk \o para \o ParagraphBreak)
             ELSE ChunkLoop(Tail(paragraphs), chunk_size,
                            SaveChunk(chunks, current_chunk),
                            para \o ParagraphBreak)

\* the chunk size in force: the argument, or the field when it is None
EffectiveChunkSize(max_chunk_size, chunk_size) ==
    IF chunk_size = {} THEN max_chunk_size ELSE CHOOSE n \in chunk_size : TRUE

_chunk_document(max_chunk_size, content, chunk_size) ==
    ChunkLoop(SplitParagraphs(content),
              EffectiveChunkSize(max_chunk_size, chunk_size), <<>>, <<>>)

ChunkAlphabet == {"a", " ", "\n"}
ChunkTexts == SeqsUpTo(ChunkAlphabet, MaxChunkText)

ChunkSizeArgs ==
    {[max_chunk_size |-> m, chunk_size |-> {}] : m \in 1..MaxChunkCap}
        \cup {[max_chunk_size |-> MaxChunkCap, chunk_size |-> {n}] : n \in 0..MaxChunkCap}

(***************************************************************************)
(* SpecChunk: the chunker applied to every bounded text and chunk size.    *)
(***************************************************************************)
InitChunk ==
    /\ call \in {[op |-> "_chunk_document", env |-> AllLibraries,
                  max_chunk_size |-> a.max_chunk_size,
                  content |-> t, chunk_size |-> a.chunk_size] :
                    a \in ChunkSizeArgs, t \in ChunkTexts}
    /\ ret = NotCalled
    /\ chat_calls = <<>>
    /\ imports = call.env
    /\ AppAtRest
    /\ LoopAtRest

CallChunkDocument ==
    /\ call.op = "_chunk_document"
    /\ ret.state = "not called"
    /\ ret' = Returned(_chunk_document(call.max_chunk_size, call.content, call.chunk_size))
    /\ UNCHANGED <<call, chat_calls, app_vars, loop_vars>>

NextChunk == CallChunkDocument

SpecChunk == InitChunk /\ [][NextChunk]_vars

(***************************************************************************)
(* C3, C4: what the chunks hold.                                           *)
(***************************************************************************)
ChunkReturned == call.op = "_chunk_document" /\ ret.state = "returned"

ChunkSizeInForce == EffectiveChunkSize(call.max_chunk_size, call.chunk_size)

\* '\n\n'.join(paragraphs)
RECURSIVE JoinParagraphs(_)
JoinParagraphs(paragraphs) ==
    IF paragraphs = <<>> THEN <<>>
    ELSE IF Len(paragraphs) = 1 THEN Head(paragraphs)
    ELSE Head(paragraphs) \o ParagraphBreak \o JoinParagraphs(Tail(paragraphs))

RECURSIVE Concat(_)
Concat(seqs) == IF seqs = <<>> THEN <<>> ELSE Head(seqs) \o Concat(Tail(seqs))

NotSpace(c) == ~IsSpace(c)

WithoutWhitespace(s) == SelectSeq(s, NotSpace)

\* C3: a chunk is at most chunk_size long unless it is exactly one paragraph
\* that is itself longer than chunk_size.
C3_ChunkWithinSize ==
    ChunkReturned =>
        LET paragraphs == SplitParagraphs(call.content)
        IN  \A k \in 1..Len(ret.value) :
                \/ Len(ret.value[k]) <= ChunkSizeInForce
                \/ \E i \in 1..Len(paragraphs) :
                      /\ Len(paragraphs[i]) > ChunkSizeInForce
                      /\ ret.value[k] = Strip(paragraphs[i])

\* an oversized paragraph was kept whole next to a chunk within the size
C3_Witness ==
    /\ ChunkReturned
    /\ Len(ret.value) >= 2
    /\ \E k \in 1..Len(ret.value) : Len(ret.value[k]) > ChunkSizeInForce
    /\ \E k \in 1..Len(ret.value) :
          /\ ret.value[k] # <<>>
          /\ Len(ret.value[k]) <= ChunkSizeInForce

\* chunks[j..] are, in order, runs of whole consecutive paragraphs that start
\* at paragraph i and cover the rest, each run joined by the paragraph
\* separator and stripped at its two ends
RECURSIVE Covers(_, _, _, _)
Covers(paragraphs, chunks, i, j) ==
    IF j > Len(chunks) THEN i > Len(paragraphs)
    ELSE \E k \in i..Len(paragraphs) :
            /\ chunks[j] = Strip(JoinParagraphs(SubSeq(paragraphs, i, k)))
            /\ Covers(paragraphs, chunks, k + 1, j + 1)

\* C4: the chunks hold the paragraphs of the input, whole, once each and in
\* order; but for whitespace the chunks concatenated are the input.
C4_ChunksHoldParagraphsInOrder ==
    ChunkReturned =>
        /\ Covers(SplitParagraphs(call.content), ret.value, 1, 1)
        /\ WithoutWhitespace(Concat(ret.value)) = WithoutWhitespace(call.content)

\* three non-empty paragraphs went into two chunks
C4_Witness ==
    /\ ChunkReturned
    /\ Len(SplitParagraphs(call.content)) = 3
    /\ \A i \in 1..3 : SplitParagraphs(call.content)[i] # <<>>
    /\ Len(ret.value) = 2

(***************************************************************************)
(* CohereCompassRAG._extract_key_sections.  current_section is None (the   *)
(* empty set) or a title (a singleton).                                    *)
(***************************************************************************)
\* the index of the first "\n" of s, 0 if there is none
FirstNewline(s) ==
    LET at == {i \in 1..Len(s) : s[i] = "\n"}
    IN  IF at = {} THEN 0 ELSE CHOOSE i \in at : \A j \in at : i <= j

\* summary_text.split('\n')
RECURSIVE SplitLines(_)
SplitLines(s) ==
    LET i == FirstNewline(s)
    IN  IF i = 0 THEN <<s>>
        ELSE <<SubSeq(s, 1, i - 1)>> \o SplitLines(Drop(s, i))

\* '\n'.join(lines)
RECURSIVE JoinLines(_)
JoinLines(lines) ==
    IF lines = <<>> THEN <<>>
    ELSE IF Len(lines) = 1 THEN Head(lines)
    ELSE Head(lines) \o <<"\n">> \o JoinLines(Tail(lines))

\* line.startswith('#')
StartsWithMarker(line) == line # <<>> /\ Head(line) = "#"

\* line.lstrip('#')
RECURSIVE LStripMarker(_)
LStripMarker(line) ==
    IF line # <<>> /\ Head(line) = "#" THEN LStripMarker(Tail(line)) ELSE line

\* the truth value Python gives current_section: neither None nor ""
Truthy(current_section) == current_section # {} /\ current_section # {<<>>}

Section(current_section, current_content) ==
    [title |-> CHOOSE t \in current_section : TRUE,
     content |-> Strip(JoinLines(current_content))]

\* sections once the open section has been closed, if there is a truthy one
CloseSection(sections, current_section, current_content) ==
    IF Truthy(current_section)
    THEN Append(sections, Section(current_section, current_content))
    ELSE sections

\* the for loop over lines and the final "add final section"
RECURSIVE SectionLoop(_, _, _, _)
SectionLoop(lines, sections, current_section, current_content) ==
    IF lines = <<>> THEN CloseSection(sections, current_section, current_content)
    ELSE LET line == Head(lines)
         IN  IF StartsWithMarker(line)
             THEN SectionLoop(Tail(lines),
                              CloseSection(sections, current_section, current_content),
                              {Strip(LStripMarker(line))}, <<>>)
             ELSE SectionLoop(Tail(lines), sections, current_section,
                              IF Strip(line) # <<>>
                              THEN Append(current_content, line)
                              ELSE current_content)

_extract_key_sections(summary_text) ==
    SectionLoop(SplitLines(summary_text), <<>>, {}, <<>>)

SummaryAlphabet == {"#", "a", " ", "\n"}

\* the example of the specification: "# A\nbody1\n# B\nbody2"
SummaryExample ==
    <<"#", " ", "A", "\n", "b", "o", "d", "y", "1", "\n",
      "#", " ", "B", "\n", "b", "o", "d", "y", "2">>

SummaryTexts == SeqsUpTo(SummaryAlphabet, MaxSummaryLen) \cup {SummaryExample}

(***************************************************************************)
(* SpecSections: outline extraction applied to every bounded summary text. *)
(***************************************************************************)
InitSections ==
    /\ call \in {[op |-> "_extract_key_sections", env |-> AllLibraries, summary_text |-> t] :
                    t \in SummaryTexts}
    /\ ret = NotCalled
    /\ chat_calls = <<>>
    /\ imports = call.env
    /\ AppAtRest
    /\ LoopAtRest

CallExtractKeySections ==
    /\ call.op = "_extract_key_sections"
    /\ ret.state = "not called"
    /\ ret' = Returned(_extract_key_sections(call.summary_text))
    /\ UNCHANGED <<call, chat_calls, app_vars, loop_vars>>

NextSections == CallExtractKeySections

SpecSections == InitSections /\ [][NextSections]_vars

(***************************************************************************)
(* C5: the outline.                                                        *)
(***************************************************************************)
SectionsReturned == call.op = "_extract_key_sections" /\ ret.state = "returned"

\* the indices of the heading lines, in order of appearance
RECURSIVE HeadingsFrom(_, _)
HeadingsFrom(lines, i) ==
    IF i > Len(lines) THEN <<>>
    ELSE (IF StartsWithMarker(lines[i]) THEN <<i>> ELSE <<>>) \o HeadingsFrom(lines, i + 1)

\* the lines after line h up to the next heading line or the end, those of
\* whitespace alone left out
RECURSIVE BodyAfter(_, _)
BodyAfter(lines, h) ==
    IF h + 1 > Len(lines) \/ StartsWithMarker(lines[h + 1]) THEN <<>>
    ELSE (IF Strip(lines[h + 1]) # <<>> THEN <<lines[h + 1]>> ELSE <<>>)
            \o BodyAfter(lines, h + 1)

\* C5: one Section per line that begins with '#', in order of appearance; its
\* title is the line less the markers and the surrounding whitespace, its
\* content the non-empty lines that follow, up to the next heading line or
\* the end, joined by newlines (read here up to the whitespace around the
\* content); no heading line, no section.
C5_OneSectionPerHeading ==
    SectionsReturned =>
        LET lines == SplitLines(call.summary_text)
            headings == HeadingsFrom(lines, 1)
        IN  /\ Len(ret.value) = Len(headings)
            /\ \A k \in 1..Len(headings) :
                  /\ ret.value[k].title = Strip(LStripMarker(lines[headings[k]]))
                  /\ Strip(ret.value[k].content)
                        = Strip(JoinLines(BodyAfter(lines, headings[k])))

(***************************************************************************)
(* The model collaborator, client.chat: the call fails or returns a        *)
(* response whose text the caller reads.                                   *)
(***************************************************************************)
ChatFailure(none) == [ok |-> FALSE, text |-> none]

ChatResponse(text) == [ok |-> TRUE, text |-> text]

\* a prompt: the fixed text around the document content, the content embedded,
\* and the question embedded (none but in the prompts of answer_questions)
Prompt(template, content) == [template |-> template, content |-> content, question |-> ""]

\* one entry of chat_calls
ChatCall(op, prompt, chat) ==
    [op |-> op, prompt |-> prompt, ok |-> chat.ok, text |-> chat.text]

(***************************************************************************)
(* json.loads on the response texts the model draws.  A Python value is    *)
(* its kind, its items as (key, rendered value) pairs when it is a dict,   *)
(* and its rendering otherwise.  valid tells whether the text is           *)
(* syntactically valid JSON, loads what json.loads does with it.           *)
(***************************************************************************)
PyValue(kind, items, scalar) == [kind |-> kind, items |-> items, scalar |-> scalar]

PyDict(items) == PyValue("dict", items, "")

NoValue == PyValue("none", {}, "")

JsonCase(text, valid, loads, value) ==
    [text |-> text, valid |-> valid, loads |-> loads, value |-> value]

DeeplyNestedJson == "[[[[ 1500 levels of nested arrays, about 3000 characters ]]]]"

JsonCases ==
    { JsonCase("{\"model_name\": \"Credit Model\", \"key_assumptions\": [\"stationarity\"]}",
               TRUE, "value",
               PyDict({<<"model_name", "Credit Model">>,
                       <<"key_assumptions", "['stationarity']">>})),
      JsonCase("{}", TRUE, "value", PyDict({})),
      JsonCase("{\"raw_response\": \"x\"}", TRUE, "value",
               PyDict({<<"raw_response", "x">>})),
      JsonCase("{\"raw_response\": \"x\", \"model_name\": \"m\"}", TRUE, "value",
               PyDict({<<"raw_response", "x">>, <<"model_name", "m">>})),
      JsonCase("[1, 2]", TRUE, "value", PyValue("list", {}, "[1, 2]")),
      JsonCase("3", TRUE, "value", PyValue("int", {}, "3")),
      JsonCase("\"text\"", TRUE, "value", PyValue("str", {}, "text")),
      JsonCase("null", TRUE, "value", PyValue("NoneType", {}, "None")),
      JsonCase(DeeplyNestedJson, TRUE, "RecursionError",
               PyValue("list", {}, "[[[[ ... ]]]]")),
      JsonCase("The model is a credit scorecard.", FALSE, "JSONDecodeError", NoValue),
      JsonCase("", FALSE, "JSONDecodeError", NoValue),
      JsonCase("Here is the JSON: {}", FALSE, "JSONDecodeError", NoValue),
      JsonCase("{\"model_name\": ", FALSE, "JSONDecodeError", NoValue) }

JsonCaseOf(text) == CHOOSE c \in JsonCases : c.text = text

(***************************************************************************)
(* CohereCompassRAG.extract_key_information.                               *)
(***************************************************************************)
\* the prompt limits, one ten-thousandth of the program's 50000 and 30000
SummaryContentLimit == 5
QuestionContentLimit == 3
ExtractionContentLimit == 3

\* the extraction prompt: the schema, then document_content[:30000]
ExtractionPrompt(document_content) ==
    Prompt("extraction", Take(document_content, ExtractionContentLimit))

\* the try/except around json.loads(response.text)
ParseKeyInformation(text) ==
    LET c == JsonCaseOf(text)
    IN  IF c.loads = "value" THEN Returned(c.value)
        ELSE IF c.loads = "JSONDecodeError"
        THEN Returned(PyDict({<<"raw_response", text>>}))
        ELSE Raised(c.loads)

\* a variant that answers a failed model call with an empty mapping
extract_key_information_swallowing(document_content, chat) ==
    IF ~chat.ok THEN Returned(PyDict({}))
    ELSE ParseKeyInformation(chat.text)

\* chat is what client.chat does when it is called with the extraction prompt
extract_key_information(document_content, chat) ==
    IF ~chat.ok THEN Raised("ModelCallFailure")
    ELSE ParseKeyInformation(chat.text)

DocAlphabet == {"a", " "}
DocContents == SeqsUpTo(DocAlphabet, MaxDocLen)

KeyInfoChats == {ChatFailure("")} \cup {ChatResponse(c.text) : c \in JsonCases}

(***************************************************************************)
(* SpecKeyInfo: key-information extraction for every bounded document      *)
(* content and every response of the model.                                *)
(***************************************************************************)
InitKeyInfo ==
    /\ call \in {[op |-> "extract_key_information", env |-> AllLibraries,
                  document_content |-> d, chat |-> c] :
                    d \in DocContents, c \in KeyInfoChats}
    /\ ret = NotCalled
    /\ chat_calls = <<>>
    /\ imports = call.env
    /\ AppAtRest
    /\ LoopAtRest

CallExtractKeyInformation ==
    /\ call.op = "extract_key_information"
    /\ ret.state = "not called"
    /\ chat_calls' = Append(chat_calls,
                            ChatCall("extract_key_information",
                                     ExtractionPrompt(call.document_content),
                                     call.chat))
    /\ ret' = extract_key_information(call.document_content, call.chat)
    /\ UNCHANGED <<call, app_vars, loop_vars>>

NextKeyInfo == CallExtractKeyInformation

SpecKeyInfo == InitKeyInfo /\ [][NextKeyInfo]_vars

(***************************************************************************)
(* C6, C7: what extract_key_information gives its caller.                  *)
(***************************************************************************)
KeyInfoCalled == call.op = "extract_key_information" /\ ret.state # "not called"

ParseExceptions == {"JSONDecodeError", "RecursionError"}

\* C6: a syntactically valid JSON response comes back as the parsed
\* structure, any other response as a mapping with the single field
\* raw_response holding the whole response text, and no parse exception
\* reaches the caller.
C6_ParsedOrRawFallback ==
    (KeyInfoCalled /\ call.chat.ok) =>
        LET c == JsonCaseOf(call.chat.text)
        IN  /\ c.valid => ret = Returned(c.value)
            /\ ~c.valid => ret = Returned(PyDict({<<"raw_response", call.chat.text>>}))
            /\ ret.state = "raised" => ret.exc \notin ParseExceptions

Keys(value) == {item[1] : item \in value.items}

\* C7: a returned KeyInformation is a mapping, and either it has no
\* raw_response field or raw_response is its only field.
C7_ExactlyOneShape ==
    (KeyInfoCalled /\ ret.state = "returned") =>
        /\ ret.value.kind = "dict"
        /\ "raw_response" \notin Keys(ret.value) \/ Keys(ret.value) = {"raw_response"}

(***************************************************************************)
(* Files, as the readers see them.  A file has the bytes a text read       *)
(* returns; InvalidByte stands for a byte sequence that is not UTF-8.      *)
(* opens tells whether the format's library (PdfReader, Document,          *)
(* pandas.read_csv) accepts the file; the remaining fields are what that   *)
(* library then exposes.                                                   *)
(***************************************************************************)
InvalidByte == "<ff>"

BlankFile ==
    [exists |-> TRUE, suffix |-> "", name |-> <<>>, bytes |-> <<>>, opens |-> FALSE,
     pages |-> <<>>, paragraphs |-> <<>>, tables |-> <<>>, sections |-> <<>>,
     shape |-> <<0, 0>>, columns |-> <<>>, frame |-> <<>>]

\* self.supported_formats
supported_formats == {".pdf", ".txt", ".md", ".docx", ".csv"}

\* file_path_obj.suffix.lower(), on the suffixes the model draws
Lower(suffix) ==
    CASE suffix = ".TXT" -> ".txt"
      [] suffix = ".PDF" -> ".pdf"
      [] OTHER -> suffix

\* the pages a portable document is read up to: 150 in the program
PdfPageLimit == 2

\* str(n) for the numbers the model prints
Digits == <<"1", "2", "3", "4", "5", "6", "7", "8", "9">>
Str(n) == IF n = 0 THEN <<"0">> ELSE <<Digits[n]>>

\* except Exception: log and return ""
Caught(outcome) == IF outcome.state = "raised" THEN Returned(<<>>) ELSE outcome

\* file.read() of open(file_path, 'r', encoding='utf-8')
ReadStrict(file) ==
    IF \E i \in 1..Len(file.bytes) : file.bytes[i] = InvalidByte
    THEN Raised("UnicodeDecodeError")
    ELSE Returned(file.bytes)

\* file.read() of open(file_path, 'r', encoding='utf-8', errors='ignore')
ReadIgnoring(file) ==
    Returned(SelectSeq(file.bytes, LAMBDA c : c # InvalidByte))

\* f"\n--- Page {page_num + 1} ---\n{page_text}"
PageBlock(page_num, page_text) ==
    <<"\n", "-", "-", "-", " ", "P", "a", "g", "e", " ">> \o Str(page_num + 1)
        \o <<" ", "-", "-", "-", "\n">> \o page_text

\* a variant whose limit lets one page more through
RECURSIVE PdfPagesOneMore(_, _, _)
PdfPagesOneMore(pages, page_num, content) ==
    IF page_num >= Len(pages) \/ page_num > PdfPageLimit THEN Returned(content)
    ELSE LET page == pages[page_num + 1]
         IN  IF page.fails THEN Raised("PdfReadError")
             ELSE PdfPagesOneMore(pages, page_num + 1,
                                  IF page.text # <<>>
                                  THEN content \o PageBlock(page_num, page.text)
                                  ELSE content)

\* the loop over enumerate(pdf_reader.pages), from page_num on
RECURSIVE PdfPages(_, _, _)
PdfPages(pages, page_num, content) ==
    IF page_num >= Len(pages) \/ page_num >= PdfPageLimit THEN Returned(content)
    ELSE LET page == pages[page_num + 1]
         IN  IF page.fails THEN Raised("PdfReadError")
             ELSE PdfPages(pages, page_num + 1,
                           IF page.text # <<>>
                           THEN content \o PageBlock(page_num, page.text)
                           ELSE content)

_process_pdf(max_content_length, env, file) ==
    IF ~env.pypdf THEN Returned(<<>>)
    ELSE Caught(IF ~file.opens THEN Raised("PdfReadError")
                ELSE LET read == PdfPages(file.pages, 0, <<>>)
                     IN  IF read.state = "raised" THEN read
                         ELSE Returned(_clean_content(max_content_length, read.value)))

\* for paragraph in doc.paragraphs
RECURSIVE DocxParagraphs(_, _)
DocxParagraphs(paragraphs, content) ==
    IF paragraphs = <<>> THEN content
    ELSE DocxParagraphs(Tail(paragraphs),
                        IF Strip(Head(paragraphs)) # <<>>
                        THEN content \o Strip(Head(paragraphs)) \o <<"\n">>
                        ELSE content)

\* for cell in row.cells
RECURSIVE DocxCells(_, _)
DocxCells(cells, content) ==
    IF cells = <<>> THEN content
    ELSE DocxCells(Tail(cells),
                   IF Strip(Head(cells)) # <<>>
                   THEN content \o Strip(Head(cells)) \o <<" ", "|", " ">>
                   ELSE content)

\* for row in table.rows
RECURSIVE DocxRows(_, _)
DocxRows(rows, content) ==
    IF rows = <<>> THEN content
    ELSE DocxRows(Tail(rows), DocxCells(Head(rows), content) \o <<"\n">>)

\* for table in doc.tables; a table the library cannot walk raises
RECURSIVE DocxTables(_, _)
DocxTables(tables, content) ==
    IF tables = <<>> THEN Returned(content)
    ELSE IF Head(tables).fails THEN Raised("DocxTableError")
    ELSE DocxTables(Tail(tables), DocxRows(Head(tables).rows, content))

\* the header or the footer paragraphs of one section, each under its tag
RECURSIVE DocxTagged(_, _, _)
DocxTagged(tag, paragraphs, content) ==
    IF paragraphs = <<>> THEN content
    ELSE DocxTagged(tag, Tail(paragraphs),
                    IF Strip(Head(paragraphs)) # <<>>
                    THEN content \o tag \o <<" ">> \o Strip(Head(paragraphs)) \o <<"\n">>
                    ELSE content)

HeaderTag == <<"[", "H", "e", "a", "d", "e", "r", "]">>
FooterTag == <<"[", "F", "o", "o", "t", "e", "r", "]">>

\* for section in doc.sections
RECURSIVE DocxSections(_, _)
DocxSections(sections, content) ==
    IF sections = <<>> THEN content
    ELSE DocxSections(Tail(sections),
                      DocxTagged(FooterTag, Head(sections).footer,
                                 DocxTagged(HeaderTag, Head(sections).header, content)))

_process_docx(max_content_length, env, file) ==
    IF ~env.docx THEN Returned(<<>>)
    ELSE Caught(IF ~file.opens THEN Raised("PackageNotFoundError")
                ELSE LET body == DocxParagraphs(file.paragraphs, <<>>)
                         tabled == DocxTables(file.tables, body)
                     IN  IF tabled.state = "raised" THEN tabled
                         ELSE Returned(_clean_content(max_content_length,
                                           DocxSections(file.sections, tabled.value))))

_process_text(max_content_length, file) ==
    LET read == ReadStrict(file)
    IN  Caught(IF read.state = "raised" THEN read
               ELSE Returned(_clean_content(max_content_length, read.value)))

\* re.sub(r'#+\s+', '', content)
RECURSIVE RemoveHeaders(_)
RemoveHeaders(s) ==
    IF s = <<>> THEN <<>>
    ELSE IF Head(s) = "#"
         THEN LET rest == LStripMarker(s)
              IN  IF rest # <<>> /\ IsSpace(Head(rest))
                  THEN RemoveHeaders(LStrip(rest))
                  ELSE SubSeq(s, 1, Len(s) - Len(rest)) \o RemoveHeaders(rest)
         ELSE <<Head(s)>> \o RemoveHeaders(Tail(s))

\* The bold, italic, code and link substitutions match only text with '*',
\* '`' or '[': the files of the model have none, and they leave it as it is.
_process_markdown(max_content_length, file) ==
    LET read == ReadStrict(file)
    IN  Caught(IF read.state = "raised" THEN read
               ELSE Returned(_clean_content(max_content_length,
                                            RemoveHeaders(read.value))))

\* "CSV Document: {name}\nShape: {df.shape}\nColumns: {list(df.columns)}\n\n"
\* and, when the frame has rows, "Sample Data:\n" and df.head(10).to_string();
\* columns and frame are the renderings pandas gives
CsvDescription(file) ==
    <<"C", "S", "V", " ", "D", "o", "c", "u", "m", "e", "n", "t", ":", " ">> \o file.name \o <<"\n">>
        \o <<"S", "h", "a", "p", "e", ":", " ", "(">> \o Str(file.shape[1])
        \o <<",", " ">> \o Str(file.shape[2]) \o <<")", "\n">>
        \o <<"C", "o", "l", "u", "m", "n", "s", ":", " ">> \o file.columns \o <<"\n", "\n">>
        \o (IF file.shape[1] > 0 THEN <<"S", "a", "m", "p", "l", "e", " ", "D", "a", "t", "a", ":", "\n">> \o file.frame ELSE <<>>)

_process_csv(max_content_length, env, file) ==
    IF ~env.pandas THEN _process_text(max_content_length, file)
    ELSE Caught(IF ~file.opens THEN Raised("EmptyDataError")
                ELSE Returned(_clean_content(max_content_length, CsvDescription(file))))

_process_generic(max_content_length, file) ==
    Caught(Returned(_clean_content(max_content_length, ReadIgnoring(file).value)))

\* the body of the try of process_document
ProcessDocumentBody(max_content_length, env, file) ==
    IF ~file.exists THEN Raised("FileNotFoundError")
    ELSE IF Lower(file.suffix) \notin supported_formats THEN Returned(<<>>)
    ELSE CASE Lower(file.suffix) = ".pdf" -> _process_pdf(max_content_length, env, file)
           [] Lower(file.suffix) = ".docx" -> _process_docx(max_content_length, env, file)
           [] Lower(file.suffix) = ".txt" -> _process_text(max_content_length, file)
           [] Lower(file.suffix) = ".md" -> _process_markdown(max_content_length, file)
           [] Lower(file.suffix) = ".csv" -> _process_csv(max_content_length, env, file)
           [] OTHER -> _process_generic(max_content_length, file)

\* a variant without the except clause
process_document_uncaught(max_content_length, env, file) ==
    ProcessDocumentBody(max_content_length, env, file)

process_document(max_content_length, env, file) ==
    Caught(ProcessDocumentBody(max_content_length, env, file))

(***************************************************************************)
(* The files the model draws.                                              *)
(***************************************************************************)
FileBytes == SeqsUpTo({"a", " ", "#", InvalidByte}, MaxFileLen)

TextFiles ==
    {[BlankFile EXCEPT !.suffix = x, !.bytes = b] :
        x \in {".txt", ".md", ".TXT", ".xyz"}, b \in FileBytes}

MissingFiles ==
    {[BlankFile EXCEPT !.exists = FALSE, !.suffix = x] : x \in {".txt", ".pdf", ".xyz"}}

\* an empty file of a format that a library reads: the library rejects it
EmptyFiles == {[BlankFile EXCEPT !.suffix = x] : x \in {".pdf", ".docx", ".csv"}}

SomeBytes == <<"a">>

PageKinds ==
    {[fails |-> FALSE, text |-> <<"a">>], [fails |-> FALSE, text |-> <<>>],
     [fails |-> TRUE, text |-> <<>>]}

PdfFiles ==
    {[BlankFile EXCEPT !.suffix = ".pdf", !.bytes = SomeBytes]}
        \cup {[BlankFile EXCEPT !.suffix = x, !.bytes = SomeBytes, !.opens = TRUE, !.pages = ps] :
                 x \in {".pdf", ".PDF"}, ps \in SeqsUpTo(PageKinds, MaxPages)}

TableKinds ==
    {<<>>, <<[fails |-> FALSE, rows |-> << <<<<"a">>, <<>>, <<"b">>>> >>]>>,
     <<[fails |-> TRUE, rows |-> <<>>]>>}

SectionKinds == {<<>>, <<[header |-> << <<"h">> >>, footer |-> << <<"f">>, <<" ">> >>]>>}

DocxFiles ==
    {[BlankFile EXCEPT !.suffix = ".docx", !.bytes = SomeBytes]}
        \cup {[BlankFile EXCEPT !.suffix = ".docx", !.bytes = SomeBytes, !.opens = TRUE,
                                !.paragraphs = ps, !.tables = ts, !.sections = ss] :
                 ps \in SeqsUpTo({<<>>, <<"a">>, <<" ", "a">>}, 2),
                 ts \in TableKinds, ss \in SectionKinds}

CsvName == <<"f", ".", "c", "s", "v">>

CsvFiles ==
    {[BlankFile EXCEPT !.suffix = ".csv", !.name = CsvName, !.bytes = b] :
        b \in {<<"a">>, <<"a", InvalidByte>>}}
        \cup {[BlankFile EXCEPT !.suffix = ".csv", !.name = CsvName, !.bytes = <<"a">>,
                                !.opens = TRUE, !.shape = <<0, 1>>,
                                !.columns = <<"[", "'", "a", "'", "]">>],
              [BlankFile EXCEPT !.suffix = ".csv", !.name = CsvName,
                                !.bytes = <<"a", "\n", "1">>,
                                !.opens = TRUE, !.shape = <<1, 1>>,
                                !.columns = <<"[", "'", "a", "'", "]">>,
                                !.frame = <<" ", " ", " ", "a", "\n", "0", " ", " ", "1">>]}

Files == TextFiles \cup MissingFiles \cup EmptyFiles \cup PdfFiles \cup DocxFiles \cup CsvFiles

Envs == {Env(p, d, c) : p \in BOOLEAN, d \in BOOLEAN, c \in BOOLEAN}

(***************************************************************************)
(* SpecDoc: process_document on every file of the model.                   *)
(***************************************************************************)
InitDoc ==
    /\ call \in {[op |-> "process_document", max_content_length |-> m, env |-> e, file |-> f] :
                    m \in {MaxContentCap, PipelineContentCap}, e \in Envs, f \in Files}
    /\ ret = NotCalled
    /\ chat_calls = <<>>
    /\ imports = call.env
    /\ AppAtRest
    /\ LoopAtRest

CallProcessDocument ==
    /\ call.op = "process_document"
    /\ ret.state = "not called"
    /\ ret' = process_document(call.max_content_length, call.env, call.file)
    /\ UNCHANGED <<call, chat_calls, app_vars, loop_vars>>

NextDoc == CallProcessDocument

SpecDoc == InitDoc /\ [][NextDoc]_vars

(***************************************************************************)
(* C8: process_document degrades to the empty string.                      *)
(***************************************************************************)
DocCalled == call.op = "process_document" /\ ret.state # "not called"

HasInvalidBytes(file) == \E i \in 1..Len(file.bytes) : file.bytes[i] = InvalidByte

\* a page that is read raises
BadPageRead(file) ==
    \E i \in 1..Len(file.pages) : i <= PdfPageLimit /\ file.pages[i].fails

\* the reader of the file's format raises
ReaderFails(env, file) ==
    LET x == Lower(file.suffix)
    IN  \/ x = ".pdf" /\ env.pypdf /\ (~file.opens \/ BadPageRead(file))
        \/ x = ".docx" /\ env.docx
              /\ (~file.opens \/ \E i \in 1..Len(file.tables) : file.tables[i].fails)
        \/ x \in {".txt", ".md"} /\ HasInvalidBytes(file)
        \/ x = ".csv" /\ env.pandas /\ ~file.opens
        \/ x = ".csv" /\ ~env.pandas /\ HasInvalidBytes(file)

\* C8: process_document raises nothing and returns a string, the empty one
\* when the file is missing, its extension is not supported, its reader
\* fails, or it is an empty file of a supported format.
C8_NeverRaisesAndDegradesToEmpty ==
    DocCalled =>
        /\ ret.state = "returned"
        /\ (\/ ~call.file.exists
            \/ Lower(call.file.suffix) \notin supported_formats
            \/ ReaderFails(call.env, call.file)
            \/ call.file.bytes = <<>>)
              => ret.value = <<>>

\* a portable document whose second page cannot be read came back empty
C8_Witness ==
    /\ DocCalled
    /\ call.file.exists
    /\ Lower(call.file.suffix) = ".pdf"
    /\ call.env.pypdf
    /\ Len(call.file.pages) >= 2
    /\ ~call.file.pages[1].fails /\ call.file.pages[1].text # <<>>
    /\ call.file.pages[2].fails
    /\ ret = Returned(<<>>)

(***************************************************************************)
(* CohereCompassRAG: process_white_paper and generate_summary.             *)
(***************************************************************************)
\* config.llm.model_name
model_name == "command-a-03-2025"

\* a variant without the check for empty content
process_white_paper_unchecked(max_content_length, env, file) ==
    process_document(max_content_length, env, file)

process_white_paper(max_content_length, env, file) ==
    LET extracted == process_document(max_content_length, env, file)
    IN  IF extracted.state = "raised" THEN extracted
        ELSE IF extracted.value = <<>> THEN Raised("ValueError")
        ELSE extracted

\* a variant that cuts the content at the limit of the other two prompts
create_summary_prompt_short(content, include_details) ==
    Prompt(IF include_details THEN "detailed summary" ELSE "concise summary",
           Take(content, QuestionContentLimit))

\* _create_summary_prompt: the task, then content[:50000], then the ten-section
\* instructions or the concise one
_create_summary_prompt(content, include_details) ==
    Prompt(IF include_details THEN "detailed summary" ELSE "concise summary",
           IF Len(content) > SummaryContentLimit
           THEN Take(content, SummaryContentLimit)
           ELSE content)

\* the summary record
SummaryData(max_chunk_size, document_content, summary_text) ==
    [summary |-> summary_text,
     document_length |-> Len(document_content),
     chunks_processed |-> Len(_chunk_document(max_chunk_size, document_content, {})),
     model_used |-> model_name,
     key_sections |-> _extract_key_sections(summary_text),
     key_information |-> {}]

\* a variant that answers a failed model call with an empty summary
generate_summary_swallowing(max_chunk_size, document_content, include_details, chat) ==
    Returned(SummaryData(max_chunk_size, document_content,
                         IF chat.ok THEN chat.text ELSE <<>>))

\* chat is what client.chat does when it is called with the summary prompt; the
\* record has no key_information yet (the empty set)
generate_summary(max_chunk_size, document_content, include_details, chat) ==
    IF ~chat.ok THEN Raised("ModelCallFailure")
    ELSE Returned(SummaryData(max_chunk_size, document_content, chat.text))

(***************************************************************************)
(* StreamlitApp.show_white_paper_summary: one submitted form is one        *)
(* request.  pc names the step the handler is about to run.                *)
(***************************************************************************)
\* the fields of the two instances the application builds
app_max_content_length == PipelineContentCap
app_max_chunk_size == MaxChunkCap

Upload(name, file) == [file EXCEPT !.name = name]

TxtName == <<"w", ".", "t", "x", "t">>
MdName == <<"w", ".", "m", "d">>
PdfName == <<"w", ".", "p", "d", "f">>
DocxName == <<"w", ".", "d", "o", "c", "x">>

TextPage == [fails |-> FALSE, text |-> <<"a">>]
BadPage == [fails |-> TRUE, text |-> <<>>]

\* the files a user uploads: the uploader takes pdf, txt, md and docx
Uploads ==
    {Upload(TxtName, [BlankFile EXCEPT !.suffix = ".txt", !.bytes = b]) :
        b \in {<<>>, <<"a", " ", "a">>, <<"a", InvalidByte>>,
                <<"a", "\n", "\n", "b", "b", "b", "b", "b">>}}
        \cup {Upload(MdName, [BlankFile EXCEPT !.suffix = ".md", !.bytes = <<"#", " ", "a">>])}
        \cup {Upload(PdfName, [BlankFile EXCEPT !.suffix = ".pdf", !.bytes = SomeBytes,
                                               !.opens = TRUE, !.pages = ps]) :
                 ps \in {<<TextPage>>, <<TextPage, TextPage>>, <<TextPage, BadPage>>}}
        \cup {Upload(DocxName, [BlankFile EXCEPT !.suffix = ".docx", !.bytes = SomeBytes,
                                                !.opens = TRUE,
                                                !.paragraphs = << <<"a">>, <<"b">> >>])}

\* Path(f"temp_{white_paper.name}")
TempPath(white_paper) == <<"t", "e", "m", "p", "_">> \o white_paper.name

SummaryChats ==
    {ChatFailure(<<>>)}
        \cup {ChatResponse(t) : t \in {<<>>, <<"a">>, <<"#", " ", "A", "\n", "b">>}}

AppKeyInfoChats ==
    {ChatFailure("")}
        \cup {ChatResponse(t) : t \in {"{}", "[1, 2]", "The model is a credit scorecard.",
                                       DeeplyNestedJson}}

TheForm == CHOOSE f \in form : TRUE

Goto(state) ==
    /\ pc' = state
    /\ trace' = Append(trace, state)

\* except Exception as e: st.error(...)
Fail == Goto("Failed")

\* the end of the try block: store the record, delete the temporary file
\* (unlinked tells whether unlink succeeds), report success
Complete(record, unlinked) ==
    /\ summary_data' = {record}
    /\ white_paper_summary' = {record}
    /\ IF unlinked
       THEN disk' = disk \ {TempPath(TheForm.white_paper)} /\ Goto("Done")
       ELSE disk' = disk /\ Fail

\* the form is submitted with a file: the handler checks compass_rag and saves
\* the upload to the temporary path
Submit ==
    /\ pc = "Idle"
    /\ form = {}
    /\ \E white_paper \in Uploads, include_detailed_analysis \in BOOLEAN,
          extract_key_info \in BOOLEAN, rag_ready \in BOOLEAN, written \in BOOLEAN :
          /\ form' = {[white_paper |-> white_paper,
                       include_detailed_analysis |-> include_detailed_analysis,
                       extract_key_info |-> extract_key_info]}
          /\ IF ~rag_ready
             THEN Fail /\ UNCHANGED <<disk, white_paper_file_path>>
             ELSE IF ~written
             THEN Fail /\ UNCHANGED <<disk, white_paper_file_path>>
             ELSE /\ disk' = disk \cup {TempPath(white_paper)}
                  /\ white_paper_file_path' = {TempPath(white_paper)}
                  /\ Goto("Extracting")
    /\ UNCHANGED <<call, ret, chat_calls, imports, doc_content, summary_data,
                   white_paper_summary, requests, loop_vars>>

\* Step 1/3: process_white_paper on the temporary file
Extract ==
    /\ pc = "Extracting"
    /\ LET content == process_white_paper(app_max_content_length, imports,
                                          TheForm.white_paper)
       IN  IF content.state = "raised"
           THEN Fail /\ UNCHANGED doc_content
           ELSE doc_content' = {content.value} /\ Goto("Summarizing")
    /\ UNCHANGED <<call, ret, chat_calls, imports, form, disk, summary_data,
                   white_paper_summary, white_paper_file_path, requests, loop_vars>>

\* Step 2/3: generate_summary; without key information the request completes
Summarize ==
    /\ pc = "Summarizing"
    /\ \E content \in doc_content, chat \in SummaryChats, unlinked \in BOOLEAN :
          LET details == TheForm.include_detailed_analysis
              record == generate_summary(app_max_chunk_size, content, details, chat)
          IN  /\ chat_calls' = Append(chat_calls,
                                      ChatCall("generate_summary",
                                               _create_summary_prompt(content, details),
                                               chat))
              /\ IF record.state = "raised"
                 THEN Fail /\ UNCHANGED <<summary_data, white_paper_summary, disk>>
                 ELSE IF TheForm.extract_key_info
                 THEN /\ summary_data' = {record.value}
                      /\ Goto("ExtractingKeyInfo")
                      /\ UNCHANGED <<white_paper_summary, disk>>
                 ELSE Complete(record.value, unlinked)
    /\ UNCHANGED <<call, ret, imports, form, doc_content, white_paper_file_path, requests,
                   loop_vars>>

\* Step 3/3: extract_key_information, then the request completes
ExtractKeyInfo ==
    /\ pc = "ExtractingKeyInfo"
    /\ \E content \in doc_content, record \in summary_data, chat \in AppKeyInfoChats,
          unlinked \in BOOLEAN :
          LET key_info == extract_key_information(content, chat)
          IN  /\ chat_calls' = Append(chat_calls,
                                      ChatCall("extract_key_information",
                                               ExtractionPrompt(content), chat))
              /\ IF key_info.state = "raised"
                 THEN Fail /\ UNCHANGED <<summary_data, white_paper_summary, disk>>
                 ELSE Complete([record EXCEPT !.key_information = {key_info.value}],
                               unlinked)
    /\ UNCHANGED <<call, ret, imports, form, doc_content, white_paper_file_path, requests,
                   loop_vars>>

\* the page is run again and shows an empty form: the locals of the last run
\* are gone, the session state and the disk stay
NewRequest ==
    /\ pc \in {"Done", "Failed"}
    /\ requests < MaxRequests - 1
    /\ pc' = "Idle"
    /\ trace' = <<"Idle">>
    /\ form' = {}
    /\ doc_content' = {}
    /\ summary_data' = {}
    /\ chat_calls' = <<>>
    /\ requests' = requests + 1
    /\ UNCHANGED <<call, ret, imports, disk, white_paper_summary, white_paper_file_path,
                   loop_vars>>

Init ==
    /\ call = [op |-> "show_white_paper_summary"]
    /\ ret = NotCalled
    /\ chat_calls = <<>>
    /\ imports \in {AllLibraries, Env(FALSE, FALSE, TRUE)}
    /\ AppAtRest
    /\ LoopAtRest

Next ==
    \/ Submit
    \/ Extract
    \/ Summarize
    \/ ExtractKeyInfo
    \/ NewRequest

Spec == Init /\ [][Next]_vars

(***************************************************************************)
(* C9, C10: the order of the steps of a request.                           *)
(***************************************************************************)
Visited(state) == \E i \in 1..Len(trace) : trace[i] = state

\* process_white_paper has been called and has ended
ExtractionOver == Visited("Extracting") /\ pc # "Extracting"

\* what the Content Extractor gives for the uploaded file
ExtractedContent ==
    process_document(app_max_content_length, imports, TheForm.white_paper).value

\* C9: the summarization call is issued only after extraction has produced
\* non-empty content; when extraction yields empty content the request ends
\* in Failed and no model call is made for it.
C9_SummarizingOnlyWithContent ==
    /\ (Visited("Summarizing") \/ chat_calls # <<>>) =>
          /\ ExtractionOver
          /\ ExtractedContent # <<>>
          /\ doc_content = {ExtractedContent}
    /\ (ExtractionOver /\ ExtractedContent = <<>>) =>
          /\ pc = "Failed"
          /\ ~Visited("Summarizing")
          /\ chat_calls = <<>>

\* a request whose upload has invalid bytes has failed at extraction
C9_Witness ==
    /\ ExtractionOver
    /\ HasInvalidBytes(TheForm.white_paper)
    /\ trace = <<"Idle", "Extracting", "Failed">>

\* the states a request may enter from a state
AllowedNext(state) ==
    CASE state = "Idle" -> {"Extracting", "Failed"}
      [] state = "Extracting" -> {"Summarizing", "Failed"}
      [] state = "Summarizing" ->
            {"ExtractingKeyInfo", "AnsweringQuestions", "Done", "Failed"}
      [] state = "ExtractingKeyInfo" -> {"AnsweringQuestions", "Done", "Failed"}
      [] state = "AnsweringQuestions" -> {"Done", "Failed"}
      [] OTHER -> {}

QuestionPrompt(document_content, question) ==
    [Prompt("question", Take(document_content, QuestionContentLimit))
        EXCEPT !.question = question]

\* answers[question] = answer
DictSet(dict, key, value) == {item \in dict : item[1] # key} \cup {<<key, value>>}

\* a variant whose loop goes on to the next question when the model call fails
AnswerOneSkipping(answers_so_far, question, chat) ==
    IF ~chat.ok THEN Returned(answers_so_far)
    ELSE Returned(DictSet(answers_so_far, question, chat.text))

\* a variant that keeps the first answer obtained, whatever the question
AnswerOneCarrying(answers_so_far, question, chat) ==
    IF ~chat.ok THEN Raised("ModelCallFailure")
    ELSE IF answers_so_far = {} THEN Returned({<<question, chat.text>>})
    ELSE Returned(DictSet(answers_so_far, question,
                          (CHOOSE item \in answers_so_far : TRUE)[2]))

\* the body of the loop for one question; chat is what client.chat does when
\* it is called with the prompt of that question
AnswerOne(answers_so_far, question, chat) ==
    IF ~chat.ok THEN Raised("ModelCallFailure")
    ELSE Returned(DictSet(answers_so_far, question, chat.text))

\* a variant that goes through the list from its end
NextQuestionReversed(questions, done) ==
    questions[Len(questions) - done]

\* for question in questions: the question after those already gone through
NextQuestion(questions, done) ==
    questions[done + 1]

MaxQuestions == 2     \* longest list of questions
MaxPromptDocLen == 6  \* longest document content handed to generate_summary

Questions == {"q1", "q2"}
QuestionLists == SeqsUpTo(Questions, MaxQuestions)

AnswerChats == {ChatFailure(""), ChatResponse("yes"), ChatResponse("no")}

SummaryDocAlphabet == {"a", "\n"}
SummaryDocContents == SeqsUpTo(SummaryDocAlphabet, MaxPromptDocLen)

GenerateSummaryChats ==
    SummaryChats \cup {ChatResponse(t) : t \in {<<"#", "\n", "b">>, <<"#", " ">>}}

(***************************************************************************)
(* SpecModelCalls: the three operations that call the model, each for      *)
(* every bounded argument and every outcome of its model calls, next to    *)
(* the requests of the web application.                                    *)
(***************************************************************************)
InitModelCalls ==
    /\ call \in {[op |-> "generate_summary", env |-> AllLibraries,
                  document_content |-> d, include_details |-> i,
                  max_chunk_size |-> m, chat |-> c] :
                    d \in SummaryDocContents, i \in BOOLEAN,
                    m \in {2, MaxChunkCap}, c \in GenerateSummaryChats}
                \cup {[op |-> "extract_key_information", env |-> AllLibraries,
                       document_content |-> d, chat |-> c] :
                         d \in DocContents, c \in KeyInfoChats}
                \cup {[op |-> "answer_questions", env |-> AllLibraries,
                       document_content |-> d, questions |-> q] :
                         d \in DocContents, q \in QuestionLists}
    /\ ret = NotCalled
    /\ chat_calls = <<>>
    /\ imports = call.env
    /\ AppAtRest
    /\ LoopAtRest

CallGenerateSummary ==
    /\ call.op = "generate_summary"
    /\ ret.state = "not called"
    /\ chat_calls' = Append(chat_calls,
                            ChatCall("generate_summary",
                                     _create_summary_prompt(call.document_content,
                                                            call.include_details),
                                     call.chat))
    /\ ret' = generate_summary(call.max_chunk_size, call.document_content,
                               call.include_details, call.chat)
    /\ UNCHANGED <<call, app_vars, loop_vars>>

\* one turn of the loop: the prompt of the next question, the model call,
\* the answer stored under the question
AskQuestion ==
    /\ call.op = "answer_questions"
    /\ ret.state = "not called"
    /\ asked < Len(call.questions)
    /\ \E chat \in AnswerChats :
          LET question == NextQuestion(call.questions, asked)
              turn == AnswerOne(answers, question, chat)
          IN  /\ chat_calls' = Append(chat_calls,
                                      ChatCall("answer_questions",
                                               QuestionPrompt(call.document_content,
                                                              question),
                                               chat))
              /\ IF turn.state = "raised"
                 THEN ret' = turn /\ UNCHANGED loop_vars
                 ELSE /\ answers' = turn.value
                      /\ asked' = asked + 1
                      /\ UNCHANGED ret
    /\ UNCHANGED <<call, app_vars>>

\* the loop is over: return answers
ReturnAnswers ==
    /\ call.op = "answer_questions"
    /\ ret.state = "not called"
    /\ asked = Len(call.questions)
    /\ ret' = Returned(answers)
    /\ UNCHANGED <<call, chat_calls, app_vars, loop_vars>>

NextModelCalls ==
    \/ CallGenerateSummary
    \/ CallExtractKeyInformation
    \/ AskQuestion
    \/ ReturnAnswers
    \/ (call.op = "show_white_paper_summary" /\ Next)

SpecModelCalls == (Init \/ InitModelCalls) /\ [][NextModelCalls]_vars

(***************************************************************************)
(* C11: failed model calls.                                                *)
(***************************************************************************)
\* the state is one of the web application, not of a single operation
InRequest == call.op = "show_white_paper_summary"

CallsOf(op) == {i \in 1..Len(chat_calls) : chat_calls[i].op = op}

FailedCalls == {i \in 1..Len(chat_calls) : ~chat_calls[i].ok}

\* C11: a failed model call is the last call of its operation or request and
\* makes the step fail (the operation raises, the request is in Failed); the
\* model is called at most once for the summary, at most once for the key
\* information, and once at most for each place of the list of questions.
C11_FailurePropagatesWithoutRetry ==
    /\ \A i \in FailedCalls :
          /\ i = Len(chat_calls)
          /\ IF InRequest THEN pc = "Failed" ELSE ret = Raised("ModelCallFailure")
    /\ Cardinality(CallsOf("generate_summary")) <= 1
    /\ Cardinality(CallsOf("extract_key_information")) <= 1
    /\ CallsOf("answer_questions") # {} =>
          /\ call.op = "answer_questions"
          /\ Len(chat_calls) <= Len(call.questions)
          /\ \A i \in 1..Len(chat_calls) :
                chat_calls[i].prompt.question = call.questions[i]

\* the second of two questions has failed after the first was answered
C11_Witness ==
    /\ call.op = "answer_questions"
    /\ Len(call.questions) = 2
    /\ Len(chat_calls) = 2
    /\ chat_calls[1].ok
    /\ ~chat_calls[2].ok
    /\ ret = Raised("ModelCallFailure")

(***************************************************************************)
(* C12, C13: what answer_questions returns and the order of its calls.     *)
(***************************************************************************)
AnswersReturned == call.op = "answer_questions" /\ ret.state = "returned"

Range(seq) == {seq[i] : i \in 1..Len(seq)}

\* the last place of a question in the list
LastPlace(questions, question) ==
    CHOOSE i \in 1..Len(questions) :
        /\ questions[i] = question
        /\ \A j \in (i + 1)..Len(questions) : questions[j] # question

\* every supplied question has an answer, and it is the model's response to
\* a prompt holding the document and that question only
AnswerPerQuestion ==
    \A q \in Range(call.questions) :
        \E item \in ret.value :
            /\ item[1] = q
            /\ \E i \in 1..Len(chat_calls) :
                  /\ chat_calls[i].prompt = QuestionPrompt(call.document_content, q)
                  /\ chat_calls[i].text = item[2]

NoQuestionsNoCalls == call.questions = <<>> => (ret.value = {} /\ chat_calls = <<>>)

\* C12 as stated: a returned mapping has as many entries as questions were
\* supplied, the entry of a question is the model's response to the prompt
\* of that question, and no questions give the empty mapping without a call.
C12_EntryPerSuppliedQuestion ==
    AnswersReturned =>
        /\ Cardinality(ret.value) = Len(call.questions)
        /\ AnswerPerQuestion
        /\ NoQuestionsNoCalls

\* C12 as amended: a returned mapping has one entry for each distinct
\* question supplied, the entry of a question is the model's response to the
\* call made for its last place in the list, and no questions give the empty
\* mapping without a call.
C12_EntryPerDistinctQuestion ==
    AnswersReturned =>
        /\ {item[1] : item \in ret.value} = Range(call.questions)
        /\ Cardinality(ret.value) = Cardinality(Range(call.questions))
        /\ Len(chat_calls) = Len(call.questions)
        /\ \A item \in ret.value :
              LET i == LastPlace(call.questions, item[1])
              IN  /\ chat_calls[i].prompt
                        = QuestionPrompt(call.document_content, item[1])
                  /\ chat_calls[i].text = item[2]
        /\ AnswerPerQuestion
        /\ NoQuestionsNoCalls

\* two different questions have been answered differently
C12_Witness ==
    /\ AnswersReturned
    /\ call.questions = <<"q1", "q2">>
    /\ ret.value = {<<"q1", "yes">>, <<"q2", "no">>}

\* C13: the calls of answer_questions follow the list of questions place by
\* place, a call is made only when every call before it has returned a
\* response, and once a call has failed it is the last one and the operation
\* has raised, returning no mapping although answers may hold some.
C13_OneAtATimeInOrder ==
    call.op = "answer_questions" =>
        /\ Len(chat_calls) <= Len(call.questions)
        /\ \A i \in 1..Len(chat_calls) :
              /\ chat_calls[i].prompt.question = call.questions[i]
              /\ i < Len(chat_calls) => chat_calls[i].ok
        /\ asked = Cardinality({i \in 1..Len(chat_calls) : chat_calls[i].ok})
        /\ FailedCalls # {} =>
              /\ FailedCalls = {Len(chat_calls)}
              /\ ret.state = "raised"
        /\ ret.state = "returned" =>
              /\ FailedCalls = {}
              /\ Len(chat_calls) = Len(call.questions)

\* the call for the second question failed with the first answer in hand
C13_Witness ==
    /\ call.op = "answer_questions"
    /\ call.questions = <<"q1", "q2">>
    /\ answers = {<<"q1", "yes">>}
    /\ asked = 1
    /\ FailedCalls = {2}
    /\ ret.state = "raised"

(***************************************************************************)
(* C14: the document content a prompt embeds.                              *)
(***************************************************************************)
\* the document content the operation that made a call was given
ContentGiven == IF InRequest THEN CHOOSE c \in doc_content : TRUE
                ELSE call.document_content

LimitOf(op) ==
    CASE op = "generate_summary" -> SummaryContentLimit
      [] op = "answer_questions" -> QuestionContentLimit
      [] op = "extract_key_information" -> ExtractionContentLimit

Min(a, b) == IF a < b THEN a ELSE b

Prefix(s, n) == [i \in 1..n |-> s[i]]

\* C14: the content embedded in a prompt is the prefix of the document
\* content of length min(len(content), limit), the limit being that of the
\* operation that builds the prompt, whatever the other prompts embedded.
C14_PromptEmbedsPrefix ==
    \A i \in 1..Len(chat_calls) :
        LET limit == LimitOf(chat_calls[i].op)
        IN  /\ chat_calls[i].prompt.content
                  = Prefix(ContentGiven, Min(Len(ContentGiven), limit))
            /\ Len(ContentGiven) <= limit => chat_calls[i].prompt.content = ContentGiven

\* one request has embedded the same content cut at two different limits
C14_Witness ==
    /\ InRequest
    /\ Len(chat_calls) = 2
    /\ Len(ContentGiven) > SummaryContentLimit
    /\ Len(chat_calls[1].prompt.content) = SummaryContentLimit
    /\ Len(chat_calls[2].prompt.content) = ExtractionContentLimit
    /\ chat_calls[1].prompt.content # chat_calls[2].prompt.content

(***************************************************************************)
(* C15: the record generate_summary returns.                               *)
(***************************************************************************)
SummaryReturned == call.op = "generate_summary" /\ ret.state = "returned"

\* the response has a line that starts with the heading marker
HasHeading(text) == \E i \in 1..Len(SplitLines(text)) : StartsWithMarker(SplitLines(text)[i])

\* the lengths and the model of the record
RecordCounts ==
    /\ ret.value.summary = call.chat.text
    /\ ret.value.document_length = Len(call.document_content)
    /\ ret.value.chunks_processed
          = Len(_chunk_document(call.max_chunk_size, call.document_content, {}))
    /\ Len(call.document_content) < call.max_chunk_size =>
          ret.value.chunks_processed = 1
    /\ ret.value.model_used = model_name

\* C15: a returned record has the length of the whole content given (not of
\* the part the prompt embeds), the number of chunks of that content (1 when
\* the content is shorter than the chunk size), the configured model, and at
\* least one key section whenever the response has a heading.
C15_RecordOfSummary ==
    SummaryReturned =>
        /\ RecordCounts
        /\ HasHeading(call.chat.text) => ret.value.key_sections # <<>>

(***************************************************************************)
(* C16: the page limit of _process_pdf.                                    *)
(***************************************************************************)
\* process_document has run _process_pdf on a document that pypdf opens
PdfRead ==
    /\ DocCalled
    /\ call.file.exists
    /\ Lower(call.file.suffix) = ".pdf"
    /\ call.env.pypdf
    /\ call.file.opens

\* the pages within the limit
PagesWithinLimit(file) == Take(file.pages, PdfPageLimit)

\* the marker and text of every page within the limit that has text, in order
MarkedPages(file) ==
    Concat([i \in 1..Len(PagesWithinLimit(file)) |->
              IF file.pages[i].text # <<>>
              THEN PageBlock(i - 1, file.pages[i].text)
              ELSE <<>>])

\* C16: the content of a portable document is the normalized text of its
\* first PdfPageLimit pages, each page with text after its marker, in page
\* order; the pages past the limit are not read (a page there that cannot be
\* read changes nothing) and a document with more pages is not an error.
C16_PagesPastLimitNotRead ==
    PdfRead =>
        /\ ret = process_document(call.max_content_length, call.env,
                                  [call.file EXCEPT !.pages = PagesWithinLimit(call.file)])
        /\ ~BadPageRead(call.file) =>
              ret = Returned(_clean_content(call.max_content_length,
                                            MarkedPages(call.file)))

\* a document whose page past the limit cannot be read gave its first pages
C16_Witness ==
    /\ PdfRead
    /\ Len(call.file.pages) > PdfPageLimit
    /\ call.file.pages[PdfPageLimit + 1].fails
    /\ \A i \in 1..PdfPageLimit : call.file.pages[i].text # <<>>
    /\ ret = Returned(_clean_content(call.max_content_length, MarkedPages(call.file)))
    /\ ret.value # <<>>

(***************************************************************************)
(* C17: a page or a table that cannot be read.                             *)
(***************************************************************************)
\* the file with every page and table that cannot be read left empty
Readable(file) ==
    [file EXCEPT
        !.pages = [i \in 1..Len(file.pages) |->
                     IF file.pages[i].fails THEN [fails |-> FALSE, text |-> <<>>]
                     ELSE file.pages[i]],
        !.tables = [i \in 1..Len(file.tables) |->
                      IF file.tables[i].fails THEN [fails |-> FALSE, rows |-> <<>>]
                      ELSE file.tables[i]]]

\* the library opens the document, and some page or table raises when read
PartlyUnreadable ==
    /\ call.file.exists
    /\ call.file.opens
    /\ \/ Lower(call.file.suffix) = ".pdf" /\ call.env.pypdf
       \/ Lower(call.file.suffix) = ".docx" /\ call.env.docx
    /\ Readable(call.file) # call.file

\* C17: a page or a table that raises when it is read is passed over: the
\* content returned is that of the pages, paragraphs and tables that can be
\* read.
C17_BadPartDoesNotAbort ==
    (DocCalled /\ PartlyUnreadable) =>
        ret = process_document(call.max_content_length, call.env, Readable(call.file))

(***************************************************************************)
(* C18: a plain-text file with bytes that are not UTF-8.                   *)
(***************************************************************************)
\* process_document has run _process_text on a file with invalid bytes
InvalidTextRead ==
    /\ DocCalled
    /\ call.file.exists
    /\ Lower(call.file.suffix) = ".txt"
    /\ HasInvalidBytes(call.file)

\* C18: a plain-text file with invalid bytes is read with those bytes
\* replaced (the normalizer strips the replacement character) or dropped,
\* and the normalized text of the rest is returned; nothing is raised.
C18_InvalidBytesReplaced ==
    InvalidTextRead =>
        /\ ret.state = "returned"
        /\ ret.value \in {_clean_content(call.max_content_length, call.file.bytes),
                          _clean_content(call.max_content_length,
                                         ReadIgnoring(call.file).value)}

(***************************************************************************)
(* C19, C20: what the normalized content tells its readers.                *)
(***************************************************************************)
EndsWith(s, tail) ==
    /\ Len(s) >= Len(tail)
    /\ SubSeq(s, Len(s) - Len(tail) + 1, Len(s)) = tail

\* C19: the normalizer's output ends with the truncation marker exactly
\* when the cleaned input was longer than max_content_length and was cut.
C19_MarkerIffTruncated ==
    CleanReturned => (EndsWith(ret.value, TruncationMarker) <=> CleanTruncates)

\* C20: a string the normalizer returns has no two whitespace characters in
\* a row, and its only whitespace character is the space.
C20_NoWhitespaceRuns ==
    CleanReturned =>
        /\ \A i \in 1..Len(ret.value) : IsSpace(ret.value[i]) => ret.value[i] = " "
        /\ \A i \in 1..(Len(ret.value) - 1) :
              ~(IsSpace(ret.value[i]) /\ IsSpace(ret.value[i + 1]))

(***************************************************************************)
(* C21: the characters of the normalized content.                          *)
(***************************************************************************)
\* word characters, whitespace, and the punctuation . , ; : ! ? - ( ) [ ]
SafeSet ==
    WordChars \cup Whitespace \cup {".", ",", ";", ":", "!", "?", "-", "(", ")", "[", "]"}

\* C21: every character of a string the normalizer returns is in the safe
\* set, the characters of the truncation suffix included.
C21_OnlySafeCharacters ==
    CleanReturned => \A i \in 1..Len(ret.value) : ret.value[i] \in SafeSet

\* a text with a special character has been cut and given the suffix
C21_Witness ==
    /\ CleanReturned
    /\ CleanTruncates
    /\ \E i \in 1..Len(call.content) : call.content[i] \notin SafeSet
    /\ EndsWith(ret.value, TruncationSuffix)
    /\ Len(ret.value) > Len(TruncationSuffix)

(***************************************************************************)
(* C22: the chunks of a document that came through process_document.       *)
(***************************************************************************)
HasParagraphBreak(s) ==
    \E i \in 1..(Len(s) - 1) : s[i] = "\n" /\ s[i + 1] = "\n"

AllStepsSucceeded ==
    /\ form # {}
    /\ doc_content \notin {{}, {<<>>}}
    /\ \A i \in 1..Len(chat_calls) : chat_calls[i].ok
    /\ Len(chat_calls) = IF TheForm.extract_key_info THEN 2 ELSE 1
    /\ TheForm.extract_key_info =>
          \A record \in summary_data : record.key_information # {}

\* C23: the record of the session changes only in a step that ends with
\* every requested step of the request succeeded, and then to the record of
\* that request; a request in which extraction, summarization or
\* key-information extraction fails leaves it as it was.
C23_RecordStoredOnlyOnSuccess ==
    [][white_paper_summary' # white_paper_summary =>
          /\ AllStepsSucceeded'
          /\ white_paper_summary' = summary_data']_vars

\* a second request has failed at the key-information step with its own
\* summary in hand and the record of the first request still stored
C23_Witness ==
    /\ requests = 1
    /\ trace = <<"Idle", "Extracting", "Summarizing", "ExtractingKeyInfo", "Failed">>
    /\ summary_data # {}
    /\ white_paper_summary # {}
    /\ white_paper_summary # summary_data

(***************************************************************************)
(* C24: the temporary file of a request.                                   *)
(***************************************************************************)
\* the request has written the uploaded bytes to its temporary file
TempFileWritten == Visited("Extracting")

\* C24: a request that wrote its temporary file and has ended, in Done or
\* in Failed, has deleted the file.
C24_TempFileDeletedAtEnd ==
    (pc \in {"Done", "Failed"} /\ TempFileWritten) =>
        TempPath(TheForm.white_paper) \notin disk

====
